---- MODULE Spec2Model ----
(***************************************************************************)
(* Model of fluxclient/usb/usb2.py: the framed, multiplexed USB transport  *)
(* (USBProtocol) and its logical channels (Channel).                       *)
(*                                                                         *)
(* Bytes are integers 0..255, byte strings are sequences of them.  Python  *)
(* None is the integer None, which is no byte.  The specifications share   *)
(* the variables:                                                          *)
(*   SpecCodec  _feed_buffer / _unpack_buffer driven by a byte stream      *)
(*   SpecHS     do_handshake, one action per pass of its while loop;       *)
(*              SpecHSFair adds that the loop keeps running its passes     *)
(*   Spec       the constructed session: run(), open_channel and           *)
(*              Channel.close called from concurrent threads               *)
(*   SpecData   the session with channel 0 open: run(), get_object and     *)
(*              Channel.close called from concurrent threads               *)
(*   SpecBinary the session with channel 0 open: run(), send_binary from   *)
(*              one thread, get_object and Channel.close from another      *)
(***************************************************************************)
EXTENDS Integers, Sequences, FiniteSets, TLC

\* ------------------------------------------------------------------ bounds
MaxFrames == 2
MaxChunk == 3
MaxRaw == 4
MaxRead == 2
MaxOffers == 2
MaxIndex == 3
MaxChannelObjs == 3
MaxPendingOpens == 2
MaxPending == 2
MaxObjects == 2
MaxBinary == 1

\* --------------------------------------------------------------- constants
None == -2
ZeroIdx == -1
FIN_OBJECT == 240
FIN_BINARY == 255
FIN_BINARY_ACK == 192
CH_OFFER == 255
CH_ACK == 254
CH_FINAL == 253
CH_PING == 252
CH_CTRL_REQ == 240
CH_CTRL_RESP == 241
CH_DATA_LIMIT == 128
SENT_FIN_OBJECT == 176
SENT_FIN_BINARY == 191
SENT_FIN_ACK == 128
HANDSHAKE_TTL == 5

VARIABLES
    \* USBProtocol attributes
    _buf, session, endpoint_profile, running, channels, chl_semaphore,
    chl_open_mutex,
    \* Channel objects, by identity
    chan,
    \* transport: frames written to _tx (in the session specifications those
    \* the peer has not answered), bytes the peer has queued for _rx
    sent, wire, pos,
    \* do_handshake: its local ttl and how the call stands
    ttl, hs,
    \* the caller of _unpack_buffer: what it does next, what it got so far
    phase, got, rx, frames,
    \* run(): how the loop's execution context stands
    loop,
    \* calling threads: program counter and locals of the running method
    th,
    \* history kept for the properties only
    hist

vars == <<_buf, session, endpoint_profile, running, channels, chl_semaphore,
          chl_open_mutex, chan, sent, wire, pos, ttl, hs, phase, got, rx,
          frames, loop, th, hist>>

sessVars == <<session, endpoint_profile, running, channels, chl_semaphore,
              chl_open_mutex, chan, loop, th>>
hsVars == <<ttl, hs>>
codecVars == <<wire, pos, phase, got, frames>>

\* ------------------------------------------------------------ byte strings
RECURSIVE Concat(_)
Concat(ss) ==
    IF ss = <<>> THEN <<>> ELSE Head(ss) \o Concat(Tail(ss))

\* Python slice b[lo:hi], 0-based, hi exclusive, clipped to the string
Slice(b, lo, hi) ==
    SubSeq(b, lo + 1, IF hi > Len(b) THEN Len(b) ELSE hi)

\* HEAD_PACKER = Struct("<HB")
HEAD_PACKER_pack(size, channel_idx) ==
    <<size % 256, (size \div 256) % 256, channel_idx>>

HEAD_PACKER_unpack(b) ==
    <<b[1] + 256 * b[2], b[3]>>

\* the frame send_object / send_binary / the peer put on the wire
pack_frame(channel_idx, payload, fin) ==
    HEAD_PACKER_pack(Len(payload) + 4, channel_idx) \o payload \o <<fin>>

NeedMoreData == <<None, <<>>, None>>
ZeroMarker == <<ZeroIdx, <<>>, None>>

\* USBProtocol._unpack_buffer on buffer b: the returned triple and the new _buf
_unpack_buffer_size_eq(b) ==
    LET l == Len(b) IN
    IF l > 3
    THEN LET hd == HEAD_PACKER_unpack(Slice(b, 0, 3))
             size == hd[1]
         IN  IF size = 0
             THEN [res |-> ZeroMarker, buf |-> Slice(b, 2, l)]
             ELSE IF l > size
                  THEN [res |-> <<hd[2], Slice(b, 3, size - 1), b[size]>>,
                        buf |-> Slice(b, size, l)]
                  ELSE [res |-> NeedMoreData, buf |-> b]
    ELSE [res |-> NeedMoreData, buf |-> b]

_unpack_buffer_zero3(b) ==
    LET l == Len(b) IN
    IF l > 3
    THEN LET hd == HEAD_PACKER_unpack(Slice(b, 0, 3))
             size == hd[1]
         IN  IF size = 0
             THEN [res |-> ZeroMarker, buf |-> Slice(b, 3, l)]
             ELSE IF l >= size
                  THEN [res |-> <<hd[2], Slice(b, 3, size - 1), b[size]>>,
                        buf |-> Slice(b, size, l)]
                  ELSE [res |-> NeedMoreData, buf |-> b]
    ELSE [res |-> NeedMoreData, buf |-> b]

_unpack_buffer(b) ==
    LET l == Len(b) IN
    IF l > 3
    THEN LET hd == HEAD_PACKER_unpack(Slice(b, 0, 3))
             size == hd[1]
         IN  IF size = 0
             THEN [res |-> ZeroMarker, buf |-> Slice(b, 2, l)]
             ELSE IF l >= size
                  THEN [res |-> <<hd[2], Slice(b, 3, size - 1), b[size]>>,
                        buf |-> Slice(b, size, l)]
                  ELSE [res |-> NeedMoreData, buf |-> b]
    ELSE [res |-> NeedMoreData, buf |-> b]

\* ------------------------------------------------- msgpack (external codec)
\* Strings are abstracted to one-byte tokens in the fixstr range 0xa0..0xbf;
\* an object is an atom (small integer, string token or None) or a flat map
\* from string tokens to atoms, kept as a set of <<key, value>> pairs.
Strings ==
    <<"?", "session", "client", "fluxclient", "profile_key", "v", "S1", "S2",
      "channel", "action", "type", "status", "open", "close", "ok", "error",
      "robot", "reset">>

StrCode ==
    [s \in {Strings[j] : j \in 1..Len(Strings)} |->
        159 + (CHOOSE j \in 1..Len(Strings) : Strings[j] = s)]
Str(s) == StrCode[s]

Atom(v) == [map |-> FALSE, v |-> v, kv |-> {}]
Dict(kv) == [map |-> TRUE, v |-> None, kv |-> kv]
BadObject == [map |-> FALSE, v |-> ZeroIdx, kv |-> {}]

AtomByte(v) == IF v = None THEN 192 ELSE v
ByteAtom(b) == IF b = 192 THEN None ELSE b

RECURSIVE PackPairs(_)
PackPairs(kv) ==
    IF kv = {} THEN <<>>
    ELSE LET p == CHOOSE q \in kv : \A r \in kv : q[1] <= r[1]
         IN  <<p[1], AtomByte(p[2])>> \o PackPairs(kv \ {p})

msgpack_packb(obj) ==
    IF obj.map
    THEN <<128 + Cardinality(obj.kv)>> \o PackPairs(obj.kv)
    ELSE <<AtomByte(obj.v)>>

msgpack_unpackb(b) ==
    IF Len(b) = 0 THEN BadObject
    ELSE IF b[1] >= 128 /\ b[1] < 144
    THEN LET n == b[1] - 128
         IN  IF Len(b) # 1 + 2 * n THEN BadObject
             ELSE Dict({<<b[2 * j], ByteAtom(b[2 * j + 1])>> : j \in 1..n})
    ELSE IF Len(b) # 1 THEN BadObject
    ELSE Atom(ByteAtom(b[1]))

\* dict.get(key) / dict.get(key, default)
Get(obj, key, default) ==
    IF \E p \in obj.kv : p[1] = key
    THEN (CHOOSE p \in obj.kv : p[1] = key)[2]
    ELSE default

InitHist ==
    [silent |-> TRUE, offer |-> <<>>,
     \* open_channel: the index of the last request sent, whether its 3 s
     \* are running ("open") or over, the answer dispatched within them,
     \* and how the call ended
     reqIdx |-> None, window |-> "none", resp |-> "none", result |-> "none",
     \* the exception the last get_object call ended with
     getErr |-> "none",
     \* Channel.send_binary: whether the loop dispatched an acknowledgment
     \* for the sender's Channel since the last block was transmitted, and
     \* how the last call ended
     binAck |-> FALSE, binResult |-> "none",
     \* per Channel object: objects dispatched to it, objects handed out by
     \* get_object
     disp |-> <<>>, got |-> <<>>]

\* ------------------------------------------ SpecCodec: the deframing driver
\* payload of 253 bytes: its total_size, 257, needs both bytes of the header
LongPayload == [j \in 1..253 |-> 0]

\* frames the peer may pack: <<channel id, payload, terminator>>
CodecFrames ==
    ({0, CH_CTRL_RESP} \X {<<>>, <<0, 0, 0, 0>>} \X {FIN_OBJECT, 0})
        \cup {<<1, LongPayload, FIN_OBJECT>>}

RawBytes == {0, 1, 4}

RECURSIVE SeqsUpTo(_, _)
SeqsUpTo(S, n) ==
    IF n = 0 THEN {<<>>}
    ELSE LET shorter == SeqsUpTo(S, n - 1)
         IN  shorter \cup {Append(s, x) : s \in shorter, x \in S}

PackAll(fs) ==
    Concat([j \in 1..Len(fs) |-> pack_frame(fs[j][1], fs[j][2], fs[j][3])])

InitSession ==
    /\ session = None
    /\ endpoint_profile = {}
    /\ running = FALSE
    /\ channels = <<>>
    /\ chl_semaphore = 0
    /\ chl_open_mutex = "free"
    /\ chan = <<>>
    /\ loop = "idle"
    /\ th = <<>>

InitCodec ==
    /\ _buf = <<>>
    /\ \/ /\ frames \in SeqsUpTo(CodecFrames, MaxFrames) \ {<<>>}
          /\ wire = PackAll(frames)
       \/ /\ frames = <<>>
          /\ wire \in SeqsUpTo(RawBytes, MaxRaw)
    /\ pos = 0
    /\ phase = "feed"
    /\ got = <<>>
    /\ rx = NeedMoreData
    /\ sent = <<>>
    /\ ttl = HANDSHAKE_TTL
    /\ hs = "idle"
    /\ hist = InitHist
    /\ InitSession

\* _feed_buffer (with _recv returning the next k bytes; none on a read timeout)
Codec_feed_buffer(k) ==
    /\ phase = "feed"
    /\ pos + k <= Len(wire)
    /\ _buf' = _buf \o SubSeq(wire, pos + 1, pos + k)
    /\ pos' = pos + k
    /\ phase' = "unpack"
    /\ UNCHANGED <<wire, got, rx, frames, sent, hist>>
    /\ UNCHANGED sessVars
    /\ UNCHANGED hsVars

\* one call of _unpack_buffer by a caller that drains the buffer, as the inner
\* loop of do_handshake does: it calls again until it gets NeedMoreData
Codec_unpack_buffer ==
    /\ phase = "unpack"
    /\ LET r == _unpack_buffer(_buf)
       IN  /\ _buf' = r.buf
           /\ rx' = r.res
           /\ IF r.res = NeedMoreData
              THEN phase' = "feed" /\ got' = got
              ELSE phase' = "unpack" /\ got' = Append(got, r.res)
    /\ UNCHANGED <<wire, pos, frames, sent, hist>>
    /\ UNCHANGED sessVars
    /\ UNCHANGED hsVars

NextCodec ==
    \/ \E k \in 0..MaxChunk : Codec_feed_buffer(k)
    \/ Codec_feed_buffer(Len(wire) - pos)
    \/ Codec_unpack_buffer

SpecCodec == InitCodec /\ [][NextCodec]_vars

\* bytes taken by the first j frames of fs
RECURSIVE EndOf(_, _)
EndOf(fs, j) ==
    IF j = 0 THEN 0 ELSE EndOf(fs, j - 1) + 4 + Len(fs[j][2])

\* C1: deframing is independent of chunking.  For a stream of packed frames,
\* whatever the split into appends: the triples extracted so far are the first
\* frames of the stream, in order and unaltered; _buf is exactly the fed bytes
\* that follow them (so a NeedMoreData result left it untouched); and when the
\* caller has drained the buffer (last result NeedMoreData) every frame the fed
\* prefix completes has been extracted, the prefix ending inside the next one.
C1_Deframing ==
    frames # <<>> =>
        LET n == Len(got) IN
        /\ n <= Len(frames)
        /\ \A j \in 1..n : got[j] = frames[j]
        /\ EndOf(frames, n) <= pos
        /\ _buf = SubSeq(wire, EndOf(frames, n) + 1, pos)
        /\ phase = "feed" =>
              /\ rx = NeedMoreData
              /\ n = Len(frames) \/ EndOf(frames, n + 1) > pos

C1_Witness ==
    /\ Len(frames) >= 2
    /\ Len(wire) > 256
    /\ pos = Len(wire)
    /\ phase = "feed"
    /\ got = frames
    /\ _buf = <<>>

\* C2: with at least 4 bytes buffered and a zero total_size field,
\* _unpack_buffer returns the zero marker and drops exactly the first two
\* bytes: the third byte and all after it stay at the front of _buf.
C2_ZeroMarker ==
    [][(phase = "unpack" /\ Len(_buf) >= 4 /\ _buf[1] = 0 /\ _buf[2] = 0)
          => (rx' = ZeroMarker /\ _buf' = Tail(Tail(_buf)))]_vars

C2_Witness ==
    /\ rx = ZeroMarker
    /\ Len(_buf) >= 2
    /\ _buf[1] # 0
    /\ got # <<>>

\* --------------------------------------------------- SpecHS: do_handshake
\* USBProtocol.send_object: the bytes handed to _send
send_object_fin_f0(channel, obj) ==
    LET payload == msgpack_packb(obj)
    IN  HEAD_PACKER_pack(Len(payload) + 4, channel) \o payload
            \o <<FIN_OBJECT>>

send_object(channel, obj) ==
    LET payload == msgpack_packb(obj)
    IN  HEAD_PACKER_pack(Len(payload) + 4, channel) \o payload
            \o <<SENT_FIN_OBJECT>>

\* USBProtocol.send_binary: the bytes handed to _send
send_binary(channel, buf) ==
    HEAD_PACKER_pack(Len(buf) + 4, channel) \o buf \o <<SENT_FIN_BINARY>>

FrameChannel(f) == f[3]
FramePayload(f) == SubSeq(f, 4, Len(f) - 1)
FrameFin(f) == f[Len(f)]

ClientIdentity == Str("fluxclient")

\* the inner while True loop of do_handshake: unpack until NeedMoreData,
\* keeping the last triple that was not NeedMoreData (NeedMoreData stands for
\* data = None when there was none)
RECURSIVE DrainBuffer(_, _)
DrainStep(r, data) ==
    IF r.res[1] = None
    THEN [data |-> data, buf |-> r.buf]
    ELSE DrainBuffer(r.buf, r.res)

DrainBuffer(b, data) == DrainStep(_unpack_buffer(b), data)

\* _handle_handshake: what it stores and the frame it sends
_handle_handshake_no_pop(buf) ==
    LET data == msgpack_unpackb(buf)
    IN  [session |-> Get(data, Str("session"), Str("?")),
         endpoint_profile |-> data.kv,
         out |-> send_object(CH_ACK,
                     Dict({<<Str("session"), Get(data, Str("session"), Str("?"))>>,
                           <<Str("client"), ClientIdentity>>}))]

_handle_handshake_default_session(buf) ==
    LET data == msgpack_unpackb(buf)
    IN  [session |-> Str("?"),
         endpoint_profile |-> {p \in data.kv : p[1] # Str("session")},
         out |-> send_object(CH_ACK,
                     Dict({<<Str("session"), Str("?")>>,
                           <<Str("client"), ClientIdentity>>}))]

_handle_handshake(buf) ==
    LET data == msgpack_unpackb(buf)
        sess == Get(data, Str("session"), Str("?"))
    IN  [session |-> sess,
         endpoint_profile |-> {p \in data.kv : p[1] # Str("session")},
         out |-> send_object(CH_ACK,
                     Dict({<<Str("session"), sess>>,
                           <<Str("client"), ClientIdentity>>}))]

\* _final_handshake: its result and the session id it leaves stored
_final_handshake_accept_any(buf, sess) ==
    [ok |-> TRUE, session |-> sess]

_final_handshake(buf, sess) ==
    LET data == msgpack_unpackb(buf)
    IN  IF Get(data, Str("session"), None) = sess
        THEN [ok |-> TRUE, session |-> sess]
        ELSE [ok |-> FALSE, session |-> None]

\* the tail of a pass that consumed a retry: ttl -= 1, then the ping
do_handshake_retry_no_last_ping(t) ==
    [ttl |-> t - 1,
     out |-> IF t - 1 = 0 THEN <<>> ELSE <<send_object(CH_PING, Atom(None))>>]

do_handshake_retry(t) ==
    [ttl |-> t - 1, out |-> <<send_object(CH_PING, Atom(None))>>]

\* what the peer may have queued for one read: nothing, or whole items
Offer(s) ==
    pack_frame(CH_OFFER,
               msgpack_packb(Dict({<<Str("session"), s>>,
                                   <<Str("profile_key"), Str("v")>>})),
               FIN_OBJECT)
Confirm(s) ==
    pack_frame(CH_FINAL, msgpack_packb(Dict({<<Str("session"), s>>})),
               FIN_OBJECT)
HSItems ==
    {Offer(Str("S1")), Offer(Str("S2")), Confirm(Str("S1")),
     Confirm(Str("S2")), <<0, 0>>,
     pack_frame(5, <<1>>, FIN_OBJECT)}
HSReads ==
    {Concat(ss) : ss \in SeqsUpTo(HSItems, MaxRead)}

IsOffer(d) == d[1] = CH_OFFER /\ d[3] = FIN_OBJECT
IsFinal(d) == d[1] = CH_FINAL /\ d[3] = FIN_OBJECT

AckCount == Cardinality({j \in 1..Len(sent) : FrameChannel(sent[j]) = CH_ACK})
PingCount == Cardinality({j \in 1..Len(sent) : FrameChannel(sent[j]) = CH_PING})

InitHS ==
    /\ _buf = <<>>
    /\ frames = <<>>
    /\ wire = <<>>
    /\ pos = 0
    /\ phase = "feed"
    /\ got = <<>>
    /\ rx = NeedMoreData
    /\ sent = <<>>
    /\ ttl = HANDSHAKE_TTL
    /\ hs = "run"
    /\ hist = InitHist
    /\ InitSession

\* one pass of the while ttl loop of do_handshake, the read returning `read`
do_handshake(read) ==
    /\ hs = "run"
    /\ ttl > 0
    /\ \E d \in {DrainBuffer(_buf \o read, NeedMoreData)} :
       \E data \in {d.data} :
           /\ _buf' = d.buf
           /\ rx' = data
           /\ IF data[1] # None /\ IsOffer(data)
              THEN LET h == _handle_handshake(data[2])
                   IN  /\ AckCount < MaxOffers
                       /\ session' = h.session
                       /\ endpoint_profile' = h.endpoint_profile
                       /\ sent' = Append(sent, h.out)
                       /\ hist' = [hist EXCEPT !.silent = FALSE,
                                               !.offer = data[2]]
                       /\ UNCHANGED <<ttl, hs>>
              ELSE IF data[1] # None /\ IsFinal(data) /\ session # None
                                     /\ _final_handshake(data[2], session).ok
              THEN /\ hs' = "established"
                   /\ hist' = [hist EXCEPT !.silent = FALSE]
                   /\ UNCHANGED <<session, endpoint_profile, sent, ttl>>
              ELSE IF data[1] # None /\ ~IsFinal(data)
              THEN \* zero marker or an unexpected frame: continue
                   /\ hist' = [hist EXCEPT !.silent = FALSE]
                   /\ UNCHANGED <<session, endpoint_profile, sent, ttl, hs>>
              ELSE LET r == do_handshake_retry(ttl)
                   IN  /\ session' =
                              IF data[1] # None /\ session # None
                              THEN _final_handshake(data[2], session).session
                              ELSE session
                       /\ ttl' = r.ttl
                       /\ sent' = sent \o r.out
                       /\ hs' = IF r.ttl = 0 THEN "failed" ELSE "run"
                       /\ hist' = [hist EXCEPT !.silent = @ /\ read = <<>>]
                       /\ UNCHANGED endpoint_profile
    /\ UNCHANGED <<running, channels, chl_semaphore, chl_open_mutex, chan,
                   loop, th>>
    /\ UNCHANGED codecVars

NextHS ==
    \E read \in HSReads : do_handshake(read)

SpecHS == InitHS /\ [][NextHS]_vars

\* C3: handshake success.  A pass whose last frame is an offer carrying
\* session S stores S and the offer's other fields and sends, on channel 0xFE,
\* {session: S, client: identity}, consuming no retry; a pass whose last frame
\* is a confirmation carrying the stored session id ends the handshake
\* Established, and an established session holds the session id and the
\* profile of the last offer handled.
C3_HandshakeSuccess ==
    /\ [](hs = "established" =>
            /\ hist.offer # <<>>
            /\ session = Get(msgpack_unpackb(hist.offer), Str("session"), None)
            /\ session \in {Str("S1"), Str("S2")}
            /\ endpoint_profile = {<<Str("profile_key"), Str("v")>>})
    /\ [][(hs = "run" /\ IsOffer(rx'))
            => LET S == Get(msgpack_unpackb(rx'[2]), Str("session"), None)
                   f == sent'[Len(sent')]
               IN  /\ session' = S
                   /\ Len(sent') = Len(sent) + 1
                   /\ FrameChannel(f) = CH_ACK
                   /\ msgpack_unpackb(FramePayload(f)) =
                          Dict({<<Str("session"), S>>,
                                <<Str("client"), ClientIdentity>>})
                   /\ Len(f) = f[1] + 256 * f[2]
                   /\ ttl' = ttl /\ hs' = "run"]_vars
    /\ [][(hs = "run" /\ ttl > 0 /\ session # None /\ IsFinal(rx')
                /\ Get(msgpack_unpackb(rx'[2]), Str("session"), None) = session)
            => (hs' = "established" /\ session' = session
                    /\ endpoint_profile' = endpoint_profile)]_vars

C3_Witness ==
    /\ hs = "established"
    /\ session = Str("S1")
    /\ IsFinal(rx)
    /\ AckCount >= 1
    /\ ttl < HANDSHAKE_TTL

\* C4: retry exhaustion.  In every state the pings sent number 5 minus the
\* retries left, and the handshake has failed exactly when no retry is left;
\* while every read has returned nothing, only pings (channel 0xFC) have been
\* sent, so the silent handshake fails having sent exactly 5 pings.
C4_RetryExhaustion ==
    /\ PingCount = HANDSHAKE_TTL - ttl
    /\ (hs = "failed") <=> (ttl = 0)
    /\ hist.silent =>
          /\ \A j \in 1..Len(sent) : FrameChannel(sent[j]) = CH_PING
          /\ hs \in {"run", "failed"}
          /\ hs = "failed" => Len(sent) = 5

C4_Witness ==
    /\ hist.silent
    /\ hs = "failed"
    /\ PingCount = 5
    /\ Len(sent) = 5

\* C15: handshake safety.  The pass that ends the handshake Established has
\* as its last frame a confirmation (0xFD, 0xF0) carrying the stored session
\* id, which is the one of the last offer handled; a confirmation carrying
\* another id clears the stored id and consumes one retry; a confirmation
\* received while no id is stored consumes one retry and leaves none stored.
C15_HandshakeSafety ==
    /\ [][(hs = "run" /\ hs' = "established")
            => (/\ IsFinal(rx')
                /\ session # None
                /\ Get(msgpack_unpackb(rx'[2]), Str("session"), None) = session
                /\ hist.offer # <<>>
                /\ session = Get(msgpack_unpackb(hist.offer), Str("session"),
                                 None)
                /\ session' = session)]_vars
    /\ [][(hs = "run" /\ ttl > 0 /\ IsFinal(rx') /\ session # None
                /\ Get(msgpack_unpackb(rx'[2]), Str("session"), None) # session)
            => (/\ session' = None
                /\ ttl' = ttl - 1
                /\ hs' # "established")]_vars
    /\ [][(hs = "run" /\ ttl > 0 /\ IsFinal(rx') /\ session = None)
            => (/\ session' = None
                /\ ttl' = ttl - 1
                /\ hs' # "established")]_vars

\* a confirmation with another id cleared the id an offer had stored, with
\* retries left
C15_Witness ==
    /\ hs = "run"
    /\ IsFinal(rx)
    /\ hist.offer # <<>>
    /\ session = None
    /\ ttl = HANDSHAKE_TTL - 1

\* do_handshake keeps running its passes until it returns or raises
SpecHSFair == SpecHS /\ WF_vars(NextHS)

\* C16: whatever the peer sends, do_handshake ends, Established or failed.
C16_HandshakeTerminates ==
    <>(hs \in {"established", "failed"})

\* C17 as stated: until do_handshake returns Established the session id and
\* the endpoint profile are unset.
C17_SetOnceAtCompletion ==
    hs # "established" => (session = None /\ endpoint_profile = {})

\* C17 as amended: session id and endpoint profile are unset until the first
\* offer is handled; a pass that handles an offer stores both in one step,
\* the id and the other fields of that offer; nothing else changes the
\* profile, and the only other change of the session id is its clearing by a
\* confirmation carrying another id; an established session has an id, and a
\* handshake that has ended changes neither.
C17_SetByOffer ==
    /\ [](hist.offer = <<>> => (session = None /\ endpoint_profile = {}))
    /\ [](hs = "established" => session # None)
    /\ [][(hs = "run" /\ IsOffer(rx'))
            => (/\ session' = Get(msgpack_unpackb(rx'[2]), Str("session"),
                                  Str("?"))
                /\ endpoint_profile' =
                      {p \in msgpack_unpackb(rx'[2]).kv :
                          p[1] # Str("session")})]_vars
    /\ [][(hs = "run" /\ ~IsOffer(rx'))
            => (/\ endpoint_profile' = endpoint_profile
                /\ session' # session
                      => (/\ session' = None
                          /\ IsFinal(rx')
                          /\ Get(msgpack_unpackb(rx'[2]), Str("session"),
                                 None) # session))]_vars
    /\ [][hs # "run" => (session' = session
                            /\ endpoint_profile' = endpoint_profile)]_vars

\* a handshake that failed after an offer leaves the offered id stored
C17_Witness ==
    /\ hs = "failed"
    /\ session = Str("S2")
    /\ endpoint_profile = {<<Str("profile_key"), Str("v")>>}

\* ------------------------------------------- the constructed session
\* Two calling threads next to the loop's own context.  `sent` holds the
\* frames written to _tx that the peer has not answered: the peer answers an
\* open or close request once, at any later time (so also after the caller
\* gave up).
Threads == {"t1", "t2"}
\* while channels are opened and closed, one thread calls open_channel and
\* the other Channel.close; on an open channel both threads read and close
Openers == {"t1"}
Closers == {"t2"}

Idle == [pc |-> "idle", idx |-> None, i |-> 0, n |-> 0, ch |-> 0]

MapPut(m, k, v) ==
    [x \in (DOMAIN m) \cup {k} |-> IF x = k THEN v ELSE m[x]]
MapDel(m, k) ==
    [x \in (DOMAIN m) \ {k} |-> m[x]]
\* dict.get(k): the value, or None
MapGet(m, k) ==
    IF k \in DOMAIN m THEN m[k] ELSE None

Has(q, x) == \E j \in 1..Len(q) : q[j] = x
\* q without the first x in it
Without(q, x) ==
    IF Has(q, x)
    THEN LET k == CHOOSE j \in 1..Len(q) :
                     q[j] = x /\ \A m \in 1..(j - 1) : q[m] # x
         IN  SubSeq(q, 1, k - 1) \o SubSeq(q, k + 1, Len(q))
    ELSE q

\* Channel.__init__
Channel(index) ==
    [index |-> index, opened |-> TRUE, objq |-> <<>>, obj_semaphore |-> 0,
     ack_semaphore |-> 0]

\* the object open_channel sends on the control-request id
OpenRequest(idx) ==
    Dict({<<Str("channel"), idx>>, <<Str("action"), Str("open")>>,
          <<Str("type"), Str("robot")>>})
OpenFrame(idx) == send_object(CH_CTRL_REQ, OpenRequest(idx))

\* _close_channel: the object Channel.close sends on the control-request id
CloseRequest(index) ==
    Dict({<<Str("channel"), index>>, <<Str("action"), Str("close")>>})
_close_channel(c) ==
    <<send_object(CH_CTRL_REQ, CloseRequest(c.index))>>
CloseFrame(index) == send_object(CH_CTRL_REQ, CloseRequest(index))

\* the requests the peer answers, and its answers to each: the peer answers
\* an open or close request for a channel index with either status
RequestIndices == 0..MaxIndex
OpenRequests == {OpenFrame(x) : x \in RequestIndices}
CloseRequests == {CloseFrame(x) : x \in RequestIndices}

PendingOpens ==
    Cardinality({j \in 1..Len(sent) :
                    sent[j] \in OpenRequests \cup {OpenFrame(None)}})

\* the state after USBProtocol.__init__: handshake done, no channel, run() not
\* yet called
Init ==
    /\ _buf = <<>>
    /\ frames = <<>>
    /\ wire = <<>>
    /\ pos = 0
    /\ phase = "feed"
    /\ got = <<>>
    /\ rx = NeedMoreData
    /\ sent = <<>>
    /\ ttl = HANDSHAKE_TTL
    /\ hs = "established"
    /\ hist = InitHist
    /\ session = Str("S1")
    /\ endpoint_profile = {<<Str("profile_key"), Str("v")>>}
    /\ running = FALSE
    /\ channels = <<>>
    /\ chl_semaphore = 0
    /\ chl_open_mutex = "free"
    /\ chan = <<>>
    /\ loop = "idle"
    /\ th = [t \in Threads |-> Idle]

CtrlResponse(index, status, action) ==
    pack_frame(CH_CTRL_RESP,
               msgpack_packb(Dict({<<Str("channel"), index>>,
                                   <<Str("status"), Str(status)>>,
                                   <<Str("action"), Str(action)>>})),
               FIN_OBJECT)
ObjectFrame(index, v) ==
    pack_frame(index, msgpack_packb(Atom(v)), FIN_OBJECT)

\* the block Channel.send_binary is called with, the frame that carries it
\* and the acknowledgment of the peer
Block == <<7>>
BinaryFrame(index) == send_binary(index, Block)
BinaryFrames == {BinaryFrame(x) : x \in RequestIndices}
AckFrame(index) == pack_frame(index, <<>>, FIN_BINARY_ACK)

PeerAnswersTo ==
    [f \in OpenRequests \cup CloseRequests \cup BinaryFrames |->
        IF f \in BinaryFrames
        THEN {AckFrame(FrameChannel(f))}
        ELSE {CtrlResponse(x, st, a) :
                 x \in {y \in RequestIndices :
                           f \in {OpenFrame(y), CloseFrame(y)}},
                 st \in {"ok", "error"},
                 a \in IF f \in OpenRequests THEN {"open"} ELSE {"close"}}]
\* the answers the peer can give to the requests in `sent`
PeerAnswers ==
    UNION {PeerAnswersTo[sent[j]] :
              j \in {m \in 1..Len(sent) : sent[m] \in DOMAIN PeerAnswersTo}}
\* the request each answer is the answer to
RequestOf ==
    [r \in UNION {PeerAnswersTo[f] : f \in DOMAIN PeerAnswersTo} |->
        CHOOSE f \in DOMAIN PeerAnswersTo : r \in PeerAnswersTo[f]]

\* what else the peer may send in steady state: a response with an action
\* the session does not know, frames for channel 0, ...
DataFrames ==
    {ObjectFrame(0, v) : v \in {1, 2}}
        \cup {pack_frame(0, <<7>>, FIN_BINARY)}
\* ... and frames that break the protocol
BadFrames ==
    {pack_frame(0, <<1>>, 1),
     pack_frame(CH_CTRL_RESP, <<1>>, FIN_BINARY),
     pack_frame(CH_PING, <<192>>, FIN_OBJECT),
     <<0, 0, 0, 0>>}

\* the one frame the peer may deliver in two reads, and where it is cut
SplitFrame == CtrlResponse(0, "ok", "reset")
SplitAt == 5

\* Channel.on_object on Channel record c: self.objq.append(obj) ...
on_object_append_drop(c, obj) ==
    c

on_object_append(c, obj) ==
    [c EXCEPT !.objq = Append(@, obj)]

\* ... and then self.obj_semaphore.release()
on_object_release(c) ==
    [c EXCEPT !.obj_semaphore = @ + 1]

\* Channel.on_binary_ack
on_binary_ack(c) ==
    [c EXCEPT !.ack_semaphore = @ + 1]

\* _send_binary_ack: the bytes handed to _send
_send_binary_ack(channel_idx) ==
    HEAD_PACKER_pack(4, channel_idx) \o <<SENT_FIN_ACK>>

\* what a handler leaves behind: the channel map, the Channel objects, the
\* open semaphore, the frames it sent, and the exception it raised if any
Outcome(chs, heap, sem, out, raised) ==
    [channels |-> chs, chan |-> heap, chl_semaphore |-> sem, out |-> out,
     raised |-> raised]

\* _on_channel_ctrl_response
_on_channel_ctrl_response_close_any(obj, chs, heap, sem) ==
    LET index == Get(obj, Str("channel"), None)
        status == Get(obj, Str("status"), None)
        action == Get(obj, Str("action"), None)
    IN  IF ~obj.map THEN Outcome(chs, heap, sem, <<>>, "AttributeError")
        ELSE IF action = Str("open")
        THEN IF status = Str("ok")
             THEN Outcome(MapPut(chs, index, Len(heap) + 1),
                          Append(heap, Channel(index)), sem + 1, <<>>, "none")
             ELSE Outcome(chs, heap, sem, <<>>, "none")
        ELSE IF action = Str("close")
        THEN IF index \in DOMAIN chs
             THEN Outcome(MapDel(chs, index), heap, sem, <<>>, "none")
             ELSE Outcome(chs, heap, sem, <<>>, "KeyError")
        ELSE Outcome(chs, heap, sem, <<>>, "none")

_on_channel_ctrl_response(obj, chs, heap, sem) ==
    LET index == Get(obj, Str("channel"), None)
        status == Get(obj, Str("status"), None)
        action == Get(obj, Str("action"), None)
    IN  IF ~obj.map THEN Outcome(chs, heap, sem, <<>>, "AttributeError")
        ELSE IF action = Str("open")
        THEN IF status = Str("ok")
             THEN Outcome(MapPut(chs, index, Len(heap) + 1),
                          Append(heap, Channel(index)), sem + 1, <<>>, "none")
             ELSE Outcome(chs, heap, sem, <<>>, "none")
        ELSE IF action = Str("close")
        THEN IF status = Str("ok")
             THEN IF index \in DOMAIN chs
                  THEN Outcome(MapDel(chs, index), heap, sem, <<>>, "none")
                  ELSE Outcome(chs, heap, sem, <<>>, "KeyError")
             ELSE Outcome(chs, heap, sem, <<>>, "none")
        ELSE Outcome(chs, heap, sem, <<>>, "none")

\* the body of run_once after _feed_buffer, on the triple d it unpacked
dispatch_drop_unknown_channel(d, chs, heap, sem) ==
    LET channel_idx == d[1]
        buf == d[2]
        fin == d[3]
        c == MapGet(chs, channel_idx)
        obj == msgpack_unpackb(buf)
    IN  IF channel_idx = None THEN Outcome(chs, heap, sem, <<>>, "none")
        ELSE IF channel_idx = ZeroIdx
        THEN Outcome(chs, heap, sem, <<>>, "FluxUSBError")
        ELSE IF channel_idx < CH_DATA_LIMIT
        THEN IF c = None THEN Outcome(chs, heap, sem, <<>>, "none")
             ELSE IF fin = FIN_OBJECT
             THEN IF obj = BadObject
                  THEN Outcome(chs, heap, sem, <<>>, "UnpackError")
                  ELSE Outcome(chs,
                               [heap EXCEPT ![c] = on_object_append(@, obj)],
                               sem, <<>>, "none")
             ELSE IF fin = FIN_BINARY
             THEN Outcome(chs, heap, sem, <<_send_binary_ack(channel_idx)>>,
                          "none")
             ELSE IF fin = FIN_BINARY_ACK
             THEN Outcome(chs, [heap EXCEPT ![c] = on_binary_ack(@)], sem,
                          <<>>, "none")
             ELSE Outcome(chs, heap, sem, <<>>, "FluxUSBError")
        ELSE IF channel_idx = CH_CTRL_RESP
        THEN IF fin # FIN_OBJECT
             THEN Outcome(chs, heap, sem, <<>>, "FluxUSBError")
             ELSE IF obj = BadObject
             THEN Outcome(chs, heap, sem, <<>>, "UnpackError")
             ELSE _on_channel_ctrl_response(obj, chs, heap, sem)
        ELSE Outcome(chs, heap, sem, <<>>, "FluxUSBError")

dispatch(d, chs, heap, sem) ==
    LET channel_idx == d[1]
        buf == d[2]
        fin == d[3]
        c == MapGet(chs, channel_idx)
        obj == msgpack_unpackb(buf)
    IN  IF channel_idx = None THEN Outcome(chs, heap, sem, <<>>, "none")
        ELSE IF channel_idx = ZeroIdx
        THEN Outcome(chs, heap, sem, <<>>, "FluxUSBError")
        ELSE IF channel_idx < CH_DATA_LIMIT
        THEN IF c = None THEN Outcome(chs, heap, sem, <<>>, "FluxUSBError")
             ELSE IF fin = FIN_OBJECT
             THEN IF obj = BadObject
                  THEN Outcome(chs, heap, sem, <<>>, "UnpackError")
                  ELSE Outcome(chs,
                               [heap EXCEPT ![c] = on_object_append(@, obj)],
                               sem, <<>>, "none")
             ELSE IF fin = FIN_BINARY
             THEN Outcome(chs, heap, sem, <<_send_binary_ack(channel_idx)>>,
                          "none")
             ELSE IF fin = FIN_BINARY_ACK
             THEN Outcome(chs, [heap EXCEPT ![c] = on_binary_ack(@)], sem,
                          <<>>, "none")
             ELSE Outcome(chs, heap, sem, <<>>, "FluxUSBError")
        ELSE IF channel_idx = CH_CTRL_RESP
        THEN IF fin # FIN_OBJECT
             THEN Outcome(chs, heap, sem, <<>>, "FluxUSBError")
             ELSE IF obj = BadObject
             THEN Outcome(chs, heap, sem, <<>>, "UnpackError")
             ELSE _on_channel_ctrl_response(obj, chs, heap, sem)
        ELSE Outcome(chs, heap, sem, <<>>, "FluxUSBError")

\* an answer of the peer read as a control response: action, status, index
NoCtrl == [is |-> FALSE, action |-> None, ok |-> FALSE, index |-> None]
CtrlOf(obj) ==
    [is |-> TRUE, action |-> Get(obj, Str("action"), None),
     ok |-> Get(obj, Str("status"), None) = Str("ok"),
     index |-> Get(obj, Str("channel"), None)]
CtrlTable ==
    [r \in DOMAIN RequestOf |-> CtrlOf(msgpack_unpackb(FramePayload(r)))]
\* the triple d that run_once unpacked, read as an answer of the peer
Ctrl(d) ==
    IF d[1] = CH_CTRL_RESP /\ d[3] = FIN_OBJECT
          /\ pack_frame(d[1], d[2], d[3]) \in DOMAIN CtrlTable
    THEN CtrlTable[pack_frame(d[1], d[2], d[3])]
    ELSE NoCtrl

IsAckFor(d, chs) ==
    /\ d[1] # None /\ d[1] >= 0 /\ d[1] < CH_DATA_LIMIT
    /\ d[1] \in DOMAIN chs
    /\ d[3] = FIN_BINARY_ACK

IsObjectFor(d, chs) ==
    /\ d[1] # None /\ d[1] >= 0 /\ d[1] < CH_DATA_LIMIT
    /\ d[1] \in DOMAIN chs
    /\ d[3] = FIN_OBJECT
    /\ msgpack_unpackb(d[2]) # BadObject

AckFramesSent ==
    Cardinality({j \in 1..Len(sent) : FrameFin(sent[j]) = SENT_FIN_ACK})

\* the request in `sent` that the unpacked triple d answers, <<>> if none
Answered(d) ==
    IF d[1] # None /\ d[1] >= 0 /\ d[3] \in {FIN_OBJECT, FIN_BINARY_ACK}
          /\ pack_frame(d[1], d[2], d[3]) \in DOMAIN RequestOf
    THEN RequestOf[pack_frame(d[1], d[2], d[3])]
    ELSE <<>>

\* the history after run_once dispatched d, read as control response k, with
\* outcome o
HistAfterDispatch(d, k, o) ==
    LET grown == Len(o.chan) > Len(chan)
    IN  [hist EXCEPT
           !.disp = IF grown THEN Append(@, <<>>)
                    ELSE IF o.raised = "none" /\ IsObjectFor(d, channels)
                    THEN [@ EXCEPT ![channels[d[1]]] =
                             Append(@, msgpack_unpackb(d[2]))]
                    ELSE @,
           !.got = IF grown THEN Append(@, <<>>) ELSE @,
           !.binAck = IF IsAckFor(d, channels)
                         /\ \E t \in Threads :
                               /\ th[t].pc = "ackwait"
                               /\ th[t].ch = channels[d[1]]
                      THEN TRUE ELSE @,
           !.resp = IF k.is /\ k.action = Str("open")
                       /\ k.index = hist.reqIdx /\ hist.window = "open"
                    THEN (IF k.ok THEN "ok" ELSE "fail")
                    ELSE @]

\* one pass of the loop of run(): run_once with _recv returning `read`, and
\* the except clause of run() when run_once raises
run_once(read) ==
    /\ loop = "running"
    /\ running
    /\ \/ /\ wire = <<>>
          /\ read # SubSeq(SplitFrame, 1, SplitAt)
          /\ wire' = wire
       \/ /\ wire = <<>>
          /\ read = SubSeq(SplitFrame, 1, SplitAt)
          /\ wire' = SubSeq(SplitFrame, SplitAt + 1, Len(SplitFrame))
       \/ /\ wire # <<>>
          /\ read = wire
          /\ wire' = <<>>
    /\ \E r \in {_unpack_buffer(_buf \o read)} :
       \E k \in {Ctrl(r.res)} :
       \E req \in {Answered(r.res)} :
       \E o \in {dispatch(r.res, channels, chan, chl_semaphore)} :
          /\ req # <<>> => Has(sent, req)
          /\ Len(o.chan) <= MaxChannelObjs
          /\ \A c \in 1..Len(chan) :
                /\ o.chan[c].ack_semaphore <= MaxBinary
                /\ Len(o.chan[c].objq) > Len(chan[c].objq)
                      => Len(hist.disp[c]) < MaxObjects
          /\ AckFramesSent + Len(o.out) <= MaxBinary
          /\ _buf' = r.buf
          /\ rx' = r.res
          /\ channels' = o.channels
          /\ chan' = o.chan
          /\ chl_semaphore' = o.chl_semaphore
          /\ sent' = Without(sent, req) \o o.out
          /\ running' = (o.raised = "none")
          /\ loop' = IF o.raised # "none" THEN "raised"
                     ELSE IF IsObjectFor(r.res, channels) THEN "on_object"
                     ELSE "running"
          /\ hist' = HistAfterDispatch(r.res, k, o)
    /\ UNCHANGED <<session, endpoint_profile, chl_open_mutex, th, pos, phase,
                   got, frames>>
    /\ UNCHANGED hsVars

\* the second statement of Channel.on_object, which ends the pass of the
\* loop that dispatched the object frame rx
run_once_on_object ==
    /\ loop = "on_object"
    /\ chan' = [chan EXCEPT ![channels[rx[1]]] = on_object_release(@)]
    /\ loop' = "running"
    /\ UNCHANGED <<_buf, session, endpoint_profile, running, channels,
                   chl_semaphore, chl_open_mutex, sent, rx, th, hist>>
    /\ UNCHANGED hsVars
    /\ UNCHANGED codecVars

\* run(): self.running = True, before the first pass of its loop
run_start ==
    /\ loop = "idle"
    /\ running' = TRUE
    /\ loop' = "running"
    /\ UNCHANGED <<_buf, session, endpoint_profile, channels, chl_semaphore,
                   chl_open_mutex, chan, sent, rx, th, hist>>
    /\ UNCHANGED hsVars
    /\ UNCHANGED codecVars

\* ------------------------------------------------------- open_channel
\* one iteration of `for i in range(len(self.channels) + 1)`: the new idx
scan_step(chs, i, idx) ==
    IF MapGet(chs, i) = None THEN i ELSE idx

\* `with self.chl_open_mutex:`, idx = None, and range() evaluated
open_channel_enter(t) ==
    /\ th[t].pc = "idle"
    /\ chl_open_mutex = "free"
    /\ PendingOpens < MaxPendingOpens
    /\ Len(sent) < MaxPending
    /\ chl_open_mutex' = t
    /\ th' = [th EXCEPT ![t] = [pc |-> "scan", idx |-> None, i |-> 0,
                                n |-> Cardinality(DOMAIN channels), ch |-> 0]]
    /\ UNCHANGED <<_buf, session, endpoint_profile, running, channels,
                   chl_semaphore, chan, sent, rx, loop, hist>>
    /\ UNCHANGED hsVars
    /\ UNCHANGED codecVars

\* one iteration of the scan; after the last one the loop is left
open_channel_scan(t) ==
    /\ th[t].pc = "scan"
    /\ \E idx \in {scan_step(channels, th[t].i, th[t].idx)} :
          th' = [th EXCEPT ![t] = IF th[t].i = th[t].n
                                  THEN [Idle EXCEPT !.pc = "send",
                                                    !.idx = idx]
                                  ELSE [@ EXCEPT !.idx = idx, !.i = @ + 1]]
    /\ UNCHANGED <<_buf, session, endpoint_profile, running, channels,
                   chl_semaphore, chl_open_mutex, chan, sent, rx, loop, hist>>
    /\ UNCHANGED hsVars
    /\ UNCHANGED codecVars

\* self.send_object(0xf0, {"channel": idx, "action": "open", "type": ...})
open_channel_send(t) ==
    /\ th[t].pc = "send"
    /\ sent' = Append(sent, OpenFrame(th[t].idx))
    /\ th' = [th EXCEPT ![t].pc = "wait"]
    /\ hist' = [hist EXCEPT !.reqIdx = th[t].idx, !.window = "open",
                            !.resp = "none", !.result = "none"]
    /\ UNCHANGED <<_buf, session, endpoint_profile, running, channels,
                   chl_semaphore, chl_open_mutex, chan, rx, loop>>
    /\ UNCHANGED hsVars
    /\ UNCHANGED codecVars

\* the 3.0 seconds of the running acquire(timeout=3.0) pass; once the ok
\* response has come nothing waits for them any more
open_wait_elapsed ==
    /\ hist.window = "open"
    /\ hist.resp # "ok"
    /\ hist' = [hist EXCEPT !.window = "expired"]
    /\ UNCHANGED <<_buf, session, endpoint_profile, running, channels,
                   chl_semaphore, chl_open_mutex, chan, sent, rx, loop, th>>
    /\ UNCHANGED hsVars
    /\ UNCHANGED codecVars

\* self.chl_semaphore.acquire(timeout=3.0) takes a permit
open_channel_acquire(t) ==
    /\ th[t].pc = "wait"
    /\ chl_semaphore > 0
    /\ chl_semaphore' = chl_semaphore - 1
    /\ th' = [th EXCEPT ![t].pc = "get"]
    /\ UNCHANGED <<_buf, session, endpoint_profile, running, channels,
                   chl_open_mutex, chan, sent, rx, loop, hist>>
    /\ UNCHANGED hsVars
    /\ UNCHANGED codecVars

\* self.chl_semaphore.acquire(timeout=3.0) returns False; the result is
\* not looked at
open_channel_timeout(t) ==
    /\ th[t].pc = "wait"
    /\ chl_semaphore = 0
    /\ hist.window = "expired"
    /\ th' = [th EXCEPT ![t].pc = "get"]
    /\ UNCHANGED <<_buf, session, endpoint_profile, running, channels,
                   chl_semaphore, chl_open_mutex, chan, sent, rx, loop, hist>>
    /\ UNCHANGED hsVars
    /\ UNCHANGED codecVars

\* channel = self.channels.get(idx); return it or raise RuntimeError; the
\* mutex is released on the way out
open_channel_get(t) ==
    /\ th[t].pc = "get"
    /\ chl_open_mutex' = "free"
    /\ \E channel \in {MapGet(channels, th[t].idx)} :
          /\ th' = [th EXCEPT ![t] = Idle]
          /\ hist' = [hist EXCEPT !.result = IF channel # None THEN "ok"
                                             ELSE "RuntimeError"]
    /\ UNCHANGED <<_buf, session, endpoint_profile, running, channels,
                   chl_semaphore, chan, sent, rx, loop>>
    /\ UNCHANGED hsVars
    /\ UNCHANGED codecVars

\* ------------------------------------------------------ Channel.close
\* callers hold a Channel once the open_channel call that asked for it is
\* over
InCallersHands(c) ==
    \A t \in Openers :
        th[t].pc \in {"wait", "get"} => MapGet(channels, th[t].idx) # c

\* `if self.__opened:` on Channel object c
close_test(t, c) ==
    /\ th[t].pc = "idle"
    /\ c \in 1..Len(chan)
    /\ InCallersHands(c)
    /\ Len(sent) < MaxPending
    /\ th' = [th EXCEPT ![t].pc = IF chan[c].opened THEN "close" ELSE "idle",
                        ![t].ch = IF chan[c].opened THEN c ELSE 0]
    /\ UNCHANGED <<_buf, session, endpoint_profile, running, channels,
                   chl_semaphore, chl_open_mutex, chan, sent, rx, loop, hist>>
    /\ UNCHANGED hsVars
    /\ UNCHANGED codecVars

\* self.__opened = False; self.usbprotocol._close_channel(self)
close_send(t) ==
    /\ th[t].pc = "close"
    /\ chan' = [chan EXCEPT ![th[t].ch].opened = FALSE]
    /\ sent' = sent \o _close_channel(chan[th[t].ch])
    /\ th' = [th EXCEPT ![t] = Idle]
    /\ UNCHANGED <<_buf, session, endpoint_profile, running, channels,
                   chl_semaphore, chl_open_mutex, rx, loop, hist>>
    /\ UNCHANGED hsVars
    /\ UNCHANGED codecVars

\* ------------------------------------------------- Channel.get_object
\* self.objq.popleft(): the object returned and the queue left
get_object_pop_right(q) ==
    [obj |-> q[Len(q)], objq |-> SubSeq(q, 1, Len(q) - 1)]

get_object_pop(q) ==
    [obj |-> Head(q), objq |-> Tail(q)]

\* self.obj_semaphore.acquire(timeout=timeout) takes a permit
get_object_acquire(t, c) ==
    /\ th[t].pc = "idle"
    /\ c \in 1..Len(chan)
    /\ chan[c].obj_semaphore > 0
    /\ chan' = [chan EXCEPT ![c].obj_semaphore = @ - 1]
    /\ th' = [th EXCEPT ![t].pc = "pop", ![t].ch = c]
    /\ hist' = [hist EXCEPT !.getErr = "none"]
    /\ UNCHANGED <<_buf, session, endpoint_profile, running, channels,
                   chl_semaphore, chl_open_mutex, sent, rx, loop>>
    /\ UNCHANGED hsVars
    /\ UNCHANGED codecVars

\* the acquire returns False: raise SystemError("TIMEOUT")
get_object_timeout(t, c) ==
    /\ th[t].pc = "idle"
    /\ c \in 1..Len(chan)
    /\ chan[c].obj_semaphore = 0
    /\ hist' = [hist EXCEPT !.getErr = "TIMEOUT"]
    /\ UNCHANGED <<_buf, session, endpoint_profile, running, channels,
                   chl_semaphore, chl_open_mutex, chan, sent, rx, loop, th>>
    /\ UNCHANGED hsVars
    /\ UNCHANGED codecVars

\* return self.objq.popleft(), which raises IndexError on an empty deque
get_object_return(t) ==
    /\ th[t].pc = "pop"
    /\ IF chan[th[t].ch].objq = <<>>
       THEN /\ hist' = [hist EXCEPT !.getErr = "IndexError"]
            /\ chan' = chan
       ELSE \E r \in {get_object_pop(chan[th[t].ch].objq)} :
               /\ chan' = [chan EXCEPT ![th[t].ch].objq = r.objq]
               /\ hist' = [hist EXCEPT !.got[th[t].ch] = Append(@, r.obj)]
    /\ th' = [th EXCEPT ![t] = Idle]
    /\ UNCHANGED <<_buf, session, endpoint_profile, running, channels,
                   chl_semaphore, chl_open_mutex, sent, rx, loop>>
    /\ UNCHANGED hsVars
    /\ UNCHANGED codecVars

\* ------------------------------------------------- Channel.send_binary
\* self.usbprotocol.send_binary(self.index, buf) on Channel object c
send_binary_transmit(t, c) ==
    /\ th[t].pc = "idle"
    /\ c \in 1..Len(chan)
    /\ Len(sent) < MaxPending
    /\ sent' = Append(sent, send_binary(chan[c].index, Block))
    /\ th' = [th EXCEPT ![t].pc = "ackwait", ![t].ch = c]
    /\ hist' = [hist EXCEPT !.binAck = FALSE, !.binResult = "none"]
    /\ UNCHANGED <<_buf, session, endpoint_profile, running, channels,
                   chl_semaphore, chl_open_mutex, chan, rx, loop>>
    /\ UNCHANGED hsVars
    /\ UNCHANGED codecVars

\* self.ack_semaphore.acquire(timeout=timeout) takes a permit: return
send_binary_acquire(t) ==
    /\ th[t].pc = "ackwait"
    /\ chan[th[t].ch].ack_semaphore > 0
    /\ chan' = [chan EXCEPT ![th[t].ch].ack_semaphore = @ - 1]
    /\ th' = [th EXCEPT ![t] = Idle]
    /\ hist' = [hist EXCEPT !.binResult = "ok"]
    /\ UNCHANGED <<_buf, session, endpoint_profile, running, channels,
                   chl_semaphore, chl_open_mutex, sent, rx, loop>>
    /\ UNCHANGED hsVars
    /\ UNCHANGED codecVars

\* the acquire returns False: raise SystemError("TIMEOUT")
send_binary_timeout(t) ==
    /\ th[t].pc = "ackwait"
    /\ chan[th[t].ch].ack_semaphore = 0
    /\ th' = [th EXCEPT ![t] = Idle]
    /\ hist' = [hist EXCEPT !.binResult = "TIMEOUT"]
    /\ UNCHANGED <<_buf, session, endpoint_profile, running, channels,
                   chl_semaphore, chl_open_mutex, chan, sent, rx, loop>>
    /\ UNCHANGED hsVars
    /\ UNCHANGED codecVars

\* what _recv can return next: the rest of a frame cut in two, or else an
\* answer to a request or one of `reads`
NextReads(reads) ==
    IF wire = <<>> THEN reads \cup PeerAnswers ELSE {wire}

\* -------------------------------------- Spec: opening and closing channels
LifecycleReads ==
    {<<>>}

Next ==
    \/ run_start
    \/ \E read \in NextReads(LifecycleReads) : run_once(read)
    \/ \E t \in Openers : open_channel_enter(t)
    \/ \E t \in Openers : open_channel_scan(t)
    \/ \E t \in Openers : open_channel_send(t)
    \/ open_wait_elapsed
    \/ \E t \in Openers : open_channel_acquire(t)
    \/ \E t \in Openers : open_channel_timeout(t)
    \/ \E t \in Openers : open_channel_get(t)
    \/ \E t \in Closers : \E c \in 1..MaxChannelObjs : close_test(t, c)
    \/ \E t \in Closers : close_send(t)

Spec == Init /\ [][Next]_vars

\* ------------------------------------- SpecData: traffic on an open channel
\* the session after run() was started and open_channel() returned channel 0
InitData ==
    /\ _buf = <<>>
    /\ frames = <<>>
    /\ wire = <<>>
    /\ pos = 0
    /\ phase = "feed"
    /\ got = <<>>
    /\ rx = NeedMoreData
    /\ sent = <<>>
    /\ ttl = HANDSHAKE_TTL
    /\ hs = "established"
    /\ hist = [InitHist EXCEPT !.reqIdx = 0, !.window = "open", !.resp = "ok",
                               !.result = "ok", !.disp = << <<>> >>,
                               !.got = << <<>> >>]
    /\ session = Str("S1")
    /\ endpoint_profile = {<<Str("profile_key"), Str("v")>>}
    /\ running = TRUE
    /\ channels = MapPut(<<>>, 0, 1)
    /\ chl_semaphore = 0
    /\ chl_open_mutex = "free"
    /\ chan = <<Channel(0)>>
    /\ loop = "running"
    /\ th = [t \in Threads |-> Idle]

DataReads ==
    DataFrames \cup BadFrames
        \cup {<<>>, SubSeq(SplitFrame, 1, SplitAt)}

NextData ==
    \/ \E read \in NextReads(DataReads) : run_once(read)
    \/ run_once_on_object
    \/ \E t \in Threads : \E c \in 1..MaxChannelObjs : get_object_acquire(t, c)
    \/ \E t \in Threads : \E c \in 1..MaxChannelObjs : get_object_timeout(t, c)
    \/ \E t \in Threads : get_object_return(t)
    \/ \E t \in Threads : \E c \in 1..MaxChannelObjs : close_test(t, c)
    \/ \E t \in Threads : close_send(t)

SpecData == InitData /\ [][NextData]_vars

\* ------------------------- SpecBinary: binary blocks on an open channel
\* one thread sends blocks on channel 0, one at a time; the other reads its
\* objects and closes it
Senders == {"t1"}
Getters == {"t2"}

BinaryReads ==
    {<<>>, ObjectFrame(0, 1), pack_frame(0, Block, FIN_BINARY),
     <<0, 0, 0, 0>>}

NextBinary ==
    \/ \E read \in NextReads(BinaryReads) : run_once(read)
    \/ run_once_on_object
    \/ \E t \in Senders : \E c \in 1..MaxChannelObjs :
          send_binary_transmit(t, c)
    \/ \E t \in Senders : send_binary_acquire(t)
    \/ \E t \in Senders : send_binary_timeout(t)
    \/ \E t \in Getters : \E c \in 1..MaxChannelObjs :
          get_object_acquire(t, c)
    \/ \E t \in Getters : \E c \in 1..MaxChannelObjs :
          get_object_timeout(t, c)
    \/ \E t \in Getters : get_object_return(t)
    \/ \E t \in Getters : \E c \in 1..MaxChannelObjs : close_test(t, c)
    \/ \E t \in Getters : close_send(t)

SpecBinary == InitData /\ [][NextBinary]_vars

\* --------------------------------------------------- claims on open_channel
\* the idx the scan of open_channel ends with when it runs from iteration i
\* over a channel map chs that does not change meanwhile
RECURSIVE open_channel_index(_, _, _, _)
open_channel_index(chs, i, n, idx) ==
    IF i > n THEN idx
    ELSE open_channel_index(chs, i + 1, n, scan_step(chs, i, idx))

\* the lowest non-negative index that is not a key of chs
LowestFree(chs) ==
    CHOOSE i \in 0..Cardinality(DOMAIN chs) :
        i \notin DOMAIN chs /\ \A j \in 0..(i - 1) : j \in DOMAIN chs

\* C5: a call of open_channel that has taken the mutex and is about to scan
\* the channel map as it is now requests, when nothing disturbs the scan, the
\* lowest non-negative index that is not a key of the map.
C5_LowestFreeIndex ==
    \A t \in Openers :
        (th[t].pc = "scan" /\ th[t].i = 0
            /\ th[t].n = Cardinality(DOMAIN channels))
        => open_channel_index(channels, 0, th[t].n, th[t].idx)
              = LowestFree(channels)

\* C6: when the loop dispatched {channel: i, status: ok, action: open} for
\* the index i of the last request within the 3 s of that request's wait, the
\* call does not end with "Channel creation failed", and a caller that has
\* been released finds the Channel registered at i.
C6_OpenSuccess ==
    hist.resp = "ok" =>
        /\ hist.result # "RuntimeError"
        /\ \A t \in Openers :
              th[t].pc = "get" => MapGet(channels, th[t].idx) # None

\* C7: when the loop dispatches an open response with a status other than
\* ok for the index of the in-flight request while the caller waits, no
\* channel is registered at that index and the waiter gets its permit.
C7_OpenFailure ==
    [][\A t \in Openers :
          (th[t].pc = "wait" /\ hist.resp = "none" /\ hist'.resp = "fail")
          => (/\ th[t].idx \notin DOMAIN channels'
              /\ chl_semaphore' = chl_semaphore + 1)]_vars

\* C8: Channel.close() sends {channel: idx, action: close} on 0xF0 and
\* returns in the same step; an index leaves the channel map only when the
\* loop dispatches {channel: idx, status: ok, action: close}; the scan of
\* open_channel never picks an index that is in the map; and once that
\* response is dispatched the index is out of the map and the scan picks it.
C8_CloseLifecycle ==
    /\ [][\A t \in Threads :
             (th[t].pc = "close" /\ th'[t].pc # "close")
             => (/\ th'[t] = Idle
                 /\ sent' = Append(sent, send_object(CH_CTRL_REQ,
                               CloseRequest(chan[th[t].ch].index)))
                 /\ channels' = channels)]_vars
    /\ [][\A i \in DOMAIN channels :
             i \notin DOMAIN channels'
             => \E r \in PeerAnswers :
                   /\ CtrlTable[r] = [is |-> TRUE, action |-> Str("close"),
                                      ok |-> TRUE, index |-> i]
                   /\ run_once(r)]_vars
    /\ [][\A t \in Openers :
             (th[t].pc = "scan" /\ th'[t].idx # th[t].idx)
             => th'[t].idx \notin DOMAIN channels]_vars
    /\ [][\A r \in PeerAnswers :
             (/\ rx' = <<CH_CTRL_RESP, FramePayload(r), FIN_OBJECT>>
              /\ CtrlTable[r].action = Str("close")
              /\ CtrlTable[r].ok
              /\ CtrlTable[r].index \in DOMAIN channels
              /\ run_once(r))
             => (/\ CtrlTable[r].index \notin DOMAIN channels'
                 /\ scan_step(channels', CtrlTable[r].index, None)
                       = CtrlTable[r].index)]_vars

\* index 0 was registered, closed, freed by the response and given to the
\* next open
C8_Witness ==
    /\ Len(chan) >= 2
    /\ chan[1].index = 0 /\ ~chan[1].opened
    /\ chan[2].index = 0
    /\ MapGet(channels, 0) = 2
    /\ \A j \in 1..Len(sent) : sent[j] \notin CloseRequests

\* ------------------------------------------------ claims on an open channel
\* C9: a close request is sent for a Channel only by the first close() on
\* it: whenever a call sends one, the Channel was still marked open, so no
\* second request follows.
C9_CloseIdempotent ==
    [][\A t \in Threads :
          (th[t].pc = "close" /\ th'[t].pc # "close")
          => chan[th[t].ch].opened]_vars

\* C10: for each Channel, the objects get_object has returned followed by
\* the objects still queued are the objects the loop dispatched to it, in
\* that order; a get_object that times out found no permit, raises
\* SystemError("TIMEOUT") and leaves every queue as it was.
C10_GetObjectFifo ==
    /\ [](\A c \in 1..Len(chan) : hist.got[c] \o chan[c].objq = hist.disp[c])
    /\ [][\A t \in Threads : \A c \in 1..Len(chan) :
             get_object_timeout(t, c)
             => (/\ chan[c].obj_semaphore = 0
                 /\ hist'.getErr = "TIMEOUT"
                 /\ chan' = chan)]_vars

\* two different objects were handed out, a third call timed out
C10_Witness ==
    /\ Len(hist.got[1]) = 2
    /\ hist.got[1][1] # hist.got[1][2]
    /\ hist.getErr = "TIMEOUT"
    /\ chan[1].objq = <<>>


\* the get_object calls that hold a permit of Channel c and have not popped
Poppers(c) ==
    Cardinality({t \in Threads : th[t].pc = "pop" /\ th[t].ch = c})

\* C18: for every Channel, the permits of its object semaphore plus the
\* permits taken by get_object calls that have not popped yet never exceed
\* the length of its queue, and no get_object call pops an empty queue.
C18_PermitsWithinQueue ==
    /\ \A c \in 1..Len(chan) :
          chan[c].obj_semaphore + Poppers(c) <= Len(chan[c].objq)
    /\ hist.getErr # "IndexError"

\* a get_object call holds a permit while the loop is between the append and
\* the release of the next object
C18_Witness ==
    /\ loop = "on_object"
    /\ Poppers(1) = 1
    /\ chan[1].obj_semaphore = 0
    /\ Len(chan[1].objq) = 2


\* the unpacked triple d breaks the protocol of the steady state, with
\* channel map chs
Violation(d, chs) ==
    /\ d[1] # None
    /\ \/ d[1] = ZeroIdx
       \/ d[1] >= 0 /\ d[1] < CH_DATA_LIMIT /\ d[1] \notin DOMAIN chs
       \/ d[1] >= 0 /\ d[1] < CH_DATA_LIMIT
             /\ d[3] \notin {FIN_OBJECT, FIN_BINARY, FIN_BINARY_ACK}
       \/ d[1] = CH_CTRL_RESP /\ d[3] # FIN_OBJECT
       \/ d[1] >= CH_DATA_LIMIT /\ d[1] # CH_CTRL_RESP

\* C13: a pass of the loop that unpacks a zero-size marker, a frame for a
\* data channel that is not registered, a data frame with an unknown
\* terminator, a control response with a terminator other than 0xF0, or a
\* frame on another channel id from 0x80 up raises and clears running, and
\* from then on the loop dispatches nothing: no frame is unpacked, the
\* channel map stays, no queue grows and no semaphore is released.  A pass
\* that unpacks nothing leaves running, the channel map and every Channel as
\* they were.
C13_ViolationsFatal ==
    /\ [][(/\ Violation(rx', channels)
           /\ loop = "running"
           /\ \E read \in NextReads(DataReads) : run_once(read))
            => (loop' = "raised" /\ ~running')]_vars
    /\ [][loop = "raised"
            => (/\ loop' = "raised"
                /\ ~running'
                /\ rx' = rx
                /\ _buf' = _buf
                /\ channels' = channels
                /\ Len(chan') = Len(chan)
                /\ \A c \in 1..Len(chan) :
                      /\ Len(chan'[c].objq) <= Len(chan[c].objq)
                      /\ chan'[c].obj_semaphore <= chan[c].obj_semaphore
                      /\ chan'[c].ack_semaphore <= chan[c].ack_semaphore)]_vars
    /\ [][(/\ rx' = NeedMoreData
           /\ loop = "running"
           /\ \E read \in NextReads(DataReads) : run_once(read))
            => (/\ running' = running
                /\ loop' = "running"
                /\ channels' = channels
                /\ chan' = chan)]_vars

\* the loop stopped on an object frame for channel 0 after channel 0 was
\* closed
C13_Witness ==
    /\ loop = "raised"
    /\ ~running
    /\ rx[1] = 0
    /\ rx[3] = FIN_OBJECT
    /\ 0 \notin DOMAIN channels

\* C20: a pass of the loop that dispatches a control response (channel 0xF1,
\* terminator 0xF0, payload a map) leaves running as it was and raises
\* nothing; if its action is neither open nor close, or it is a close whose
\* status is not ok, the channel map is unchanged too.
C20_CtrlResponseNonFatal ==
    [][(/\ loop = "running"
        /\ rx'[1] = CH_CTRL_RESP
        /\ rx'[3] = FIN_OBJECT
        /\ msgpack_unpackb(rx'[2]).map
        /\ \E read \in NextReads(DataReads) : run_once(read))
         => (/\ running' = running
             /\ loop' = "running"
             /\ LET k == CtrlOf(msgpack_unpackb(rx'[2]))
                IN  (k.action \notin {Str("open"), Str("close")}
                        \/ (k.action = Str("close") /\ ~k.ok))
                    => channels' = channels)]_vars


\* C19: when open_channel is about to send its request, the index it chose
\* is a non-negative integer that is not a key of the channel map.
C19_OpenIndexFree ==
    \A t \in Openers :
        th[t].pc = "send"
        => (/\ th[t].idx # None
            /\ th[t].idx >= 0
            /\ th[t].idx \notin DOMAIN channels)


\* C11: a Channel.send_binary call returns only if the loop dispatched an
\* acknowledgment for its Channel after the call transmitted its block, and
\* a call for whose block none was dispatched ends with
\* SystemError("TIMEOUT").
C11_AckedBinarySend ==
    [][\A t \in Senders :
          (th[t].pc = "ackwait" /\ th'[t].pc = "idle")
          => (/\ hist'.binResult = "ok" => hist.binAck
              /\ ~hist.binAck => hist'.binResult = "TIMEOUT")]_vars


\* the frame a step appended to `sent`
LastSent(q) == q[Len(q)]

\* C12 as stated: the frame close() sends through send_object ends with
\* 0xF0, the frame Channel.send_binary transmits ends with 0xFF, the
\* acknowledgment sent for a received binary block ends with 0x80, and each
\* is header, payload and terminator with total_size = 4 + len(payload).
C12_ReservedTerminators ==
    [][/\ \A t \in Threads :
             (th[t].pc = "close" /\ th'[t].pc = "idle")
             => LastSent(sent') =
                   pack_frame(CH_CTRL_REQ,
                       msgpack_packb(CloseRequest(chan[th[t].ch].index)),
                       FIN_OBJECT)
       /\ \A t \in Threads :
             (th[t].pc = "idle" /\ th'[t].pc = "ackwait")
             => LastSent(sent') =
                   pack_frame(chan[th'[t].ch].index, Block, FIN_BINARY)
       /\ (/\ loop = "running"
           /\ rx'[3] = FIN_BINARY
           /\ rx'[1] \in DOMAIN channels
           /\ \E read \in NextReads(BinaryReads) : run_once(read))
             => LastSent(sent') = pack_frame(rx'[1], <<>>, SENT_FIN_ACK)]_vars

\* C12 as amended: the frame send_object emits ends with 0xB0, the frame
\* send_binary emits ends with 0xBF, the acknowledgment sent for a received
\* binary block ends with 0x80, and each is header, payload and terminator
\* with total_size = 4 + len(payload).
C12_SentTerminators ==
    [][/\ \A t \in Threads :
             (th[t].pc = "close" /\ th'[t].pc = "idle")
             => LastSent(sent') =
                   pack_frame(CH_CTRL_REQ,
                       msgpack_packb(CloseRequest(chan[th[t].ch].index)),
                       SENT_FIN_OBJECT)
       /\ \A t \in Threads :
             (th[t].pc = "idle" /\ th'[t].pc = "ackwait")
             => LastSent(sent') =
                   pack_frame(chan[th'[t].ch].index, Block, SENT_FIN_BINARY)
       /\ (/\ loop = "running"
           /\ rx'[3] = FIN_BINARY
           /\ rx'[1] \in DOMAIN channels
           /\ \E read \in NextReads(BinaryReads) : run_once(read))
             => LastSent(sent') = pack_frame(rx'[1], <<>>, SENT_FIN_ACK)]_vars

\* a close request, a binary block and an acknowledgment have been sent
C12_Witness ==
    /\ \E j \in 1..Len(sent) : FrameFin(sent[j]) = SENT_FIN_OBJECT
    /\ \E j \in 1..Len(sent) : FrameFin(sent[j]) = SENT_FIN_BINARY
    /\ \E j \in 1..Len(sent) : FrameFin(sent[j]) = SENT_FIN_ACK

\* C14: once the loop has raised and cleared running, no get_object call and
\* no send_binary call returns with success.
C14_WaitsFailAfterShutdown ==
    [][loop = "raised"
         => \A t \in Threads :
               /\ ~(/\ th[t].pc = "pop"
                    /\ th'[t].pc = "idle"
                    /\ hist'.getErr # "IndexError")
               /\ ~(/\ th[t].pc = "ackwait"
                    /\ th'[t].pc = "idle"
                    /\ hist'.binResult = "ok")]_vars

====
